---- MODULE Spec2Model ----
(***************************************************************************)
(* Gym membership server (src/server.js): the User and Payment            *)
(* collections, the auth middleware and the member and payment routes.    *)
(* Every await of a handler is a suspension point: a handler is one       *)
(* action for its synchronous prefix (middleware included) and one        *)
(* action per database call, each with the code that follows the call     *)
(* up to the next await or the response.                                  *)
(***************************************************************************)
EXTENDS Integers, Sequences, FiniteSets, TLC

VARIABLES users, payments, nextId, now, ticks, inflight, nreq, resp

\* the member dashboard (src/App.js): the membership it has fetched, the
\* browser's clock in milliseconds, the clock readings taken so far, and
\* what it last rendered
VARIABLES membershipData, today, advances, rendered

dashboard == <<membershipData, today, advances, rendered>>

vars == <<users, payments, nextId, now, ticks, inflight, nreq, resp, dashboard>>

----------------------------------------------------------------------------
(* Bounds of the model *)

MaxId == 3
MaxReqs == 2
MaxInflight == 2
MaxTicks == 1
MaxAdvances == 3

----------------------------------------------------------------------------
(* Values *)

\* JavaScript's undefined, for a string-valued field or body key
Undefined == "undefined"
\* null, as MongoDB stores a key set to no value
Null == "null"
\* an absent Date
NoDate == [y |-> 0, m |-> 0, d |-> 0]
\* an absent (undefined) amount
NoAmount == -1

Roles == {"admin", "member"}
Plans == {"monthly", "quarterly", "yearly"}
Statuses == {"active", "inactive", "pending"}
PaymentStatuses == {"pending", "completed", "failed"}

Date(y, m, d) == [y |-> y, m |-> m, d |-> d]

\* a < b on dates (months are 0-based, as in JavaScript)
DateLess(a, b) ==
    \/ a.y < b.y
    \/ a.y = b.y /\ a.m < b.m
    \/ a.y = b.y /\ a.m = b.m /\ a.d < b.d

IsLeap(y) == (y % 4 = 0 /\ y % 100 # 0) \/ y % 400 = 0

DaysInMonth(y, m) ==
    IF m = 1 THEN (IF IsLeap(y) THEN 29 ELSE 28)
    ELSE IF m \in {3, 5, 8, 10} THEN 30 ELSE 31

\* MakeDay(year, month, date) of the Date object: the month carries into
\* the year, a day past the end of the month rolls into the next month
MakeDate(y, m, d) ==
    LET y1 == y + (m \div 12)
        m1 == m % 12
        dim == DaysInMonth(y1, m1)
    IN  IF d <= dim THEN Date(y1, m1, d)
        ELSE Date(y1 + ((m1 + 1) \div 12), (m1 + 1) % 12, d - dim)

\* endDate.setMonth(endDate.getMonth() + k)
SetMonth(date, k) == MakeDate(date.y, date.m + k, date.d)

\* endDate.setFullYear(endDate.getFullYear() + k)
SetFullYear(date, k) == MakeDate(date.y + k, date.m, date.d)

NextDay(date) == MakeDate(date.y, date.m, date.d + 1)

----------------------------------------------------------------------------
(* Requests *)

Emails == {"a@x.com", "b@x.com"}
D1 == Date(2024, 2, 1)
D2 == Date(2024, 3, 1)

\* req.body with no key supplied
NoBody ==
    [name |-> Undefined, email |-> Undefined, phone |-> Undefined,
     membershipType |-> Undefined, startDate |-> NoDate, endDate |-> NoDate,
     status |-> Undefined, membership |-> Undefined, amount |-> NoAmount,
     razorpaySignature |-> Undefined]

NewMember(e) ==
    [NoBody EXCEPT !.name = "Asha", !.email = e, !.phone = "555",
                   !.membershipType = "monthly", !.startDate = D1, !.endDate = D2]

\* bodies of POST /members: complete ones, one without a name, one with a
\* plan outside the enum, one whose dates are reversed
CreateBodies ==
    {NewMember(e) : e \in Emails}
    \cup {[NewMember("a@x.com") EXCEPT !.name = Undefined],
          [NewMember("a@x.com") EXCEPT !.membershipType = "weekly"],
          [NewMember("b@x.com") EXCEPT !.startDate = D2, !.endDate = D1]}

\* bodies of PUT /members/:id
UpdateBodies ==
    {NoBody,
     [NoBody EXCEPT !.membershipType = "yearly"],
     [NoBody EXCEPT !.name = ""],
     [NoBody EXCEPT !.name = "Bina", !.status = "inactive"],
     [NoBody EXCEPT !.startDate = D2],
     [NoBody EXCEPT !.endDate = D1, !.phone = "777"]}
    \cup {[NoBody EXCEPT !.email = e] : e \in Emails}

Payable(plan, amount, sig) ==
    [NoBody EXCEPT !.membership = plan, !.amount = amount, !.razorpaySignature = sig]

\* bodies of POST /payments/verify; "genuine" is a signature the processor
\* confirms for the payment and order references, "forged" one it does not
VerifyBodies ==
    {Payable(p, 50000, "genuine") : p \in Plans}
    \cup {Payable("monthly", 50000, "forged"),
          Payable("weekly", 50000, "genuine"),
          Payable(Undefined, 50000, "genuine"),
          Payable("yearly", NoAmount, "genuine")}

\* the verify bodies tried concurrently: two plans, the unconfirmed
\* signature, the plan outside the enum, no plan
ConcurrentVerifyBodies ==
    {b \in VerifyBodies :
        b.amount # NoAmount /\ b.membership # "quarterly"}

OrderBodies == {[NoBody EXCEPT !.membership = "monthly", !.amount = 500]}

Ids == 1 .. MaxId

\* the Authorization header: absent, a token jwt.verify rejects, or a token
\* jwt.verify decodes to {id, role}
NoToken == [tok |-> "none", uid |-> 0, role |-> Undefined]
BadToken == [tok |-> "invalid", uid |-> 0, role |-> Undefined]
Token(u, r) == [tok |-> "valid", uid |-> u, role |-> r]

Credentials == {NoToken, BadToken} \cup {Token(u, r) : u \in Ids, r \in Roles}

\* the admin's token, a member's token, no token, a bad token
DirectoryCredentials == {NoToken, BadToken, Token(1, "admin"), Token(2, "member")}


NoData == [none |-> TRUE]

NoResp ==
    [rid |-> 0, op |-> "none", code |-> 0, tok |-> "none", uid |-> 0,
     role |-> Undefined, target |-> 0, body |-> NoBody, data |-> NoData,
     startDate |-> NoDate, endDate |-> NoDate, paid |-> FALSE, applied |-> FALSE,
     at |-> NoDate, npay |-> 0]

\* a request as the server receives it; at and npay record the day and the
\* number of stored payments at that moment, paid whether the handler has
\* persisted its Payment
Req(rid, op, pc, cred, target, body) ==
    [rid |-> rid, op |-> op, pc |-> pc, tok |-> cred.tok, uid |-> cred.uid,
     role |-> cred.role, target |-> target, body |-> body,
     startDate |-> NoDate, endDate |-> NoDate, paid |-> FALSE,
     at |-> now, npay |-> Len(payments)]

\* res.status(code).json(data) for request req; applied records whether the
\* handler has written the User collection
Reply(req, code, data, applied) ==
    [rid |-> req.rid, op |-> req.op, code |-> code, tok |-> req.tok,
     uid |-> req.uid, role |-> req.role, target |-> req.target,
     body |-> req.body, data |-> data, startDate |-> req.startDate,
     endDate |-> req.endDate, paid |-> req.paid, applied |-> applied,
     at |-> req.at, npay |-> req.npay]

----------------------------------------------------------------------------
(* Middleware *)

\* authenticateToken: TRUE when next() is called, else the response is 401
authenticateToken(req) == req.tok = "valid"

\* a check that only asks for a decoded token
isAdminAnyUser(req) == req.tok = "valid"

\* isAdmin: TRUE when next() is called, else the response is 403
isAdmin(req) == req.role = "admin"

\* the status the middleware chain answers with, 0 when the handler runs
Gate(req, adminOnly) ==
    IF ~authenticateToken(req) THEN 401
    ELSE IF adminOnly /\ ~isAdmin(req) THEN 403
    ELSE 0

----------------------------------------------------------------------------
(* The User and Payment collections *)

StringFields == {"name", "email", "phone", "membershipType", "status"}
DateFields == {"startDate", "endDate"}

\* the admin account (id 1) the tokens with role admin are issued for
Admin ==
    [name |-> "Root", email |-> "root@x.com", password |-> "secret",
     phone |-> "100", role |-> "admin", membershipType |-> Undefined,
     startDate |-> NoDate, endDate |-> NoDate, status |-> "active"]

\* new User({...}) of POST /members: role member, the temporary password,
\* status by the schema's default
NewUser(body) ==
    [name |-> body.name, email |-> body.email, password |-> "123456",
     phone |-> body.phone, role |-> "member",
     membershipType |-> body.membershipType, startDate |-> body.startDate,
     endDate |-> body.endDate, status |-> "active"]

\* the validation save() runs on a User document: the required paths, the
\* enums, and membershipType/startDate/endDate required for role member
ValidUser(doc) ==
    /\ doc.name \notin {Undefined, ""}
    /\ doc.email \notin {Undefined, ""}
    /\ doc.password \notin {Undefined, ""}
    /\ doc.phone \notin {Undefined, ""}
    /\ doc.role \in Roles
    /\ doc.status \in Statuses
    /\ doc.membershipType \in Plans \cup {Undefined}
    /\ doc.role = "member" =>
          /\ doc.membershipType # Undefined
          /\ doc.startDate # NoDate
          /\ doc.endDate # NoDate

\* the schema without the unique index: every write is accepted
NoUniqueIndex(us, id, email) == TRUE

\* the unique index on email: a write that would give account id the email
\* of another stored account is refused with a duplicate-key error
UniqueIndexOk(us, id, email) ==
    \A i \in DOMAIN us : i # id => us[i].email # email

\* a lookup that matches no document
FindOneNothing(us, email) == {}

\* User.findOne({ email })
FindOneByEmail(us, email) == {i \in DOMAIN us : us[i].email = email}

\* .select('-password')
SelectNoPassword(doc) == [f \in DOMAIN doc \ {"password"} |-> doc[f]]

\* if (v) of a body key holding a string
Truthy(v) == v \notin {Undefined, ""}

\* memberFields of PUT /members/:id: the body keys whose value is truthy
MemberFields(body) ==
    {f \in StringFields : Truthy(body[f])}
    \cup {f \in DateFields : body[f] # NoDate}

\* the update applied without $set semantics: a key the body leaves out is
\* overwritten with no value
ReplaceFields(doc, body) ==
    [f \in DOMAIN doc |->
        IF f \in StringFields \cup DateFields THEN body[f] ELSE doc[f]]

\* { $set: memberFields } applied to a stored document
SetFields(doc, body) ==
    [f \in DOMAIN doc |-> IF f \in MemberFields(body) THEN body[f] ELSE doc[f]]

\* the window without the quarterly branch
EndDateNoQuarterly(membership, start) ==
    IF membership = "monthly" THEN SetMonth(start, 1)
    ELSE IF membership = "yearly" THEN SetFullYear(start, 1)
    ELSE start

\* the membership window of POST /payments/verify
EndDate(membership, start) ==
    IF membership = "monthly" THEN SetMonth(start, 1)
    ELSE IF membership = "quarterly" THEN SetMonth(start, 3)
    ELSE IF membership = "yearly" THEN SetFullYear(start, 1)
    ELSE start

\* the Payment built without a status: the schema's default, pending
NewPaymentPending(req) ==
    [userId |-> req.uid,
     amount |-> IF req.body.amount = NoAmount THEN NoAmount
                ELSE req.body.amount \div 100,
     paymentType |-> "membership", paymentMethod |-> "card",
     membership |-> req.body.membership, status |-> "pending",
     startDate |-> req.startDate, endDate |-> req.endDate]

\* new Payment({...}) of POST /payments/verify
NewPayment(req) ==
    [userId |-> req.uid,
     amount |-> IF req.body.amount = NoAmount THEN NoAmount
                ELSE req.body.amount \div 100,
     paymentType |-> "membership", paymentMethod |-> "card",
     membership |-> req.body.membership, status |-> "completed",
     startDate |-> req.startDate, endDate |-> req.endDate]

\* the validation save() runs on a Payment document
ValidPayment(doc) ==
    /\ doc.amount # NoAmount
    /\ doc.membership \in Plans \cup {Undefined}
    /\ doc.status \in PaymentStatuses

\* the update document of POST /payments/verify applied to a stored User;
\* keepUndefined tells whether the driver drops a key whose value is
\* undefined or stores it as null
ApplyMembership(doc, req, keepUndefined) ==
    [doc EXCEPT
        !.membershipType =
            IF req.body.membership # Undefined THEN req.body.membership
            ELSE IF keepUndefined THEN @ ELSE Null,
        !.startDate = req.startDate,
        !.endDate = req.endDate,
        !.status = "active"]

\* milliseconds in a day: 1000 * 60 * 60 * 24
MsPerDay == 86400000

\* no membership fetched: membershipData?.endDate is undefined
NoMembership == [none |-> TRUE]

\* Math.ceil(a / b) for b > 0
Ceil(a, b) == -((-a) \div b)

\* the days counted with Math.floor
getDaysRemainingFloor(data, t) ==
    IF "endDate" \notin DOMAIN data THEN 0
    ELSE LET diffTime == data.endDate - t
             diffDays == diffTime \div MsPerDay
         IN  IF diffDays > 0 THEN diffDays ELSE 0

\* getDaysRemaining() with membershipData = data and new Date() = t
getDaysRemaining(data, t) ==
    IF "endDate" \notin DOMAIN data THEN 0
    ELSE LET diffTime == data.endDate - t
             diffDays == Ceil(diffTime, MsPerDay)
         IN  IF diffDays > 0 THEN diffDays ELSE 0

\* what the dashboard shows for membership data at clock reading t
Shown(data, t) == [data |-> data, at |-> t, days |-> getDaysRemaining(data, t)]

\* the dashboard of a session that has fetched nothing, at the epoch
DashboardIdle ==
    /\ membershipData = NoMembership
    /\ today = 0
    /\ advances = 0
    /\ rendered = Shown(NoMembership, 0)

\* the member (id 2) the admin has created before the requests modelled
Asha == NewUser(NewMember("a@x.com"))

\* the store holds the admin and one member; no request is in flight
Init ==
    /\ users = (1 :> Admin) @@ (2 :> Asha)
    /\ payments = <<>>
    /\ nextId = 3
    /\ now = Date(2024, 0, 30)
    /\ ticks = 0
    /\ inflight = {}
    /\ nreq = 0
    /\ resp = NoResp
    /\ DashboardIdle

----------------------------------------------------------------------------
(* Receiving a request: the middleware chain and the handler's code up to *)
(* its first await.  limit bounds the requests in flight.                 *)

store == <<users, payments, nextId>>
clock == <<now, ticks>>

\* the middleware answers (401, 403) or the handler starts and suspends at
\* its first database call
Receive(req, adminOnly, limit) ==
    /\ nreq < MaxReqs
    /\ Cardinality(inflight) < limit
    /\ nreq' = nreq + 1
    /\ IF Gate(req, adminOnly) # 0
       THEN /\ resp' = Reply(req, Gate(req, adminOnly), NoData, FALSE)
            /\ inflight' = inflight
       ELSE /\ resp' = NoResp
            /\ inflight' = inflight \cup {req}
    /\ UNCHANGED <<store, clock, dashboard>>

\* the handler of request r answers
Respond(r, code, data, applied) ==
    /\ resp' = Reply(r, code, data, applied)
    /\ inflight' = inflight \ {r}
    /\ UNCHANGED <<nreq, clock, dashboard>>

\* the handler of request r suspends at its next database call
Suspend(r, next) ==
    /\ inflight' = (inflight \ {r}) \cup {next}
    /\ UNCHANGED <<resp, nreq, clock, dashboard>>

\* the condition without the comparison of ids
NotAdmin(req) == req.role # "admin"

\* req.user.role !== 'admin' && req.user.id !== req.params.id
NotAdminNorSelf(req) == req.role # "admin" /\ req.uid # req.target

\* GET /members/:id
GetMember(cred, target, limit) ==
    LET req == Req(nreq + 1, "get", "findById", cred, target, NoBody)
    IN  IF authenticateToken(req) /\ NotAdminNorSelf(req)
        THEN /\ nreq < MaxReqs
             /\ Cardinality(inflight) < limit
             /\ nreq' = nreq + 1
             /\ resp' = Reply(req, 403, NoData, FALSE)
             /\ UNCHANGED <<store, clock, inflight, dashboard>>
        ELSE Receive(req, FALSE, limit)

GetMemberFindById(r) ==
    /\ r.op = "get" /\ r.pc = "findById"
    /\ IF r.target \notin DOMAIN users
       THEN Respond(r, 404, NoData, FALSE)
       ELSE Respond(r, 200, SelectNoPassword(users[r.target]), FALSE)
    /\ UNCHANGED store

\* POST /members
PostMember(cred, body, limit) ==
    Receive(Req(nreq + 1, "create", "findOne", cred, 0, body), TRUE, limit)

PostMemberFindOne(r) ==
    /\ r.op = "create" /\ r.pc = "findOne"
    /\ IF FindOneByEmail(users, r.body.email) # {}
       THEN Respond(r, 400, NoData, FALSE)
       ELSE Suspend(r, [r EXCEPT !.pc = "save"])
    /\ UNCHANGED store

\* await member.save(); the model stores at most MaxId accounts over a run
PostMemberSave(r) ==
    /\ r.op = "create" /\ r.pc = "save"
    /\ LET doc == NewUser(r.body)
       IN  IF ValidUser(doc) /\ UniqueIndexOk(users, nextId, doc.email)
           THEN /\ nextId <= MaxId
                /\ users' = (nextId :> doc) @@ users
                /\ nextId' = nextId + 1
                /\ Respond(r, 201, NoData, TRUE)
           ELSE /\ UNCHANGED <<users, nextId>>
                /\ Respond(r, 500, NoData, FALSE)
    /\ UNCHANGED payments

\* PUT /members/:id
PutMember(cred, target, body, limit) ==
    Receive(Req(nreq + 1, "update", "findById", cred, target, body), TRUE, limit)

PutMemberFindById(r) ==
    /\ r.op = "update" /\ r.pc = "findById"
    /\ IF r.target \notin DOMAIN users
       THEN Respond(r, 404, NoData, FALSE)
       ELSE Suspend(r, [r EXCEPT !.pc = "findByIdAndUpdate"])
    /\ UNCHANGED store

PutMemberFindByIdAndUpdate(r) ==
    /\ r.op = "update" /\ r.pc = "findByIdAndUpdate"
    /\ IF r.target \notin DOMAIN users
       THEN /\ UNCHANGED users
            /\ Respond(r, 200, NoData, FALSE)
       ELSE LET doc == SetFields(users[r.target], r.body)
            IN  IF UniqueIndexOk(users, r.target, doc.email)
                THEN /\ users' = [users EXCEPT ![r.target] = doc]
                     /\ Respond(r, 200, SelectNoPassword(doc), TRUE)
                ELSE /\ UNCHANGED users
                     /\ Respond(r, 500, NoData, FALSE)
    /\ UNCHANGED <<payments, nextId>>

\* DELETE /members/:id
DeleteMember(cred, target, limit) ==
    Receive(Req(nreq + 1, "delete", "findById", cred, target, NoBody), TRUE, limit)

DeleteMemberFindById(r) ==
    /\ r.op = "delete" /\ r.pc = "findById"
    /\ IF r.target \notin DOMAIN users
       THEN Respond(r, 404, NoData, FALSE)
       ELSE Suspend(r, [r EXCEPT !.pc = "findByIdAndDelete"])
    /\ UNCHANGED store

DeleteMemberFindByIdAndDelete(r) ==
    /\ r.op = "delete" /\ r.pc = "findByIdAndDelete"
    /\ users' = [i \in DOMAIN users \ {r.target} |-> users[i]]
    /\ Respond(r, 200, NoData, r.target \in DOMAIN users)
    /\ UNCHANGED <<payments, nextId>>

\* POST /payments/create-order: the order is requested from the processor
CreateOrder(cred, body, limit) ==
    Receive(Req(nreq + 1, "order", "create", cred, 0, body), FALSE, limit)

\* the callback of razorpay.orders.create, with the processor's error or order
CreateOrderCallback(r, err) ==
    /\ r.op = "order" /\ r.pc = "create"
    /\ IF err
       THEN Respond(r, 500, NoData, FALSE)
       ELSE Respond(r, 200, [amount |-> r.body.amount * 100, currency |-> "INR"], FALSE)
    /\ UNCHANGED store

\* POST /payments/verify: the window is computed from the time of the
\* request, before the first await
Verify(cred, body, limit) ==
    Receive([Req(nreq + 1, "verify", "save", cred, cred.uid, body) EXCEPT
                !.startDate = now,
                !.endDate = EndDate(body.membership, now)],
            FALSE, limit)

\* await payment.save()
VerifyPaymentSave(r) ==
    /\ r.op = "verify" /\ r.pc = "save"
    /\ LET doc == NewPayment(r)
       IN  IF ValidPayment(doc)
           THEN /\ payments' = Append(payments, doc)
                /\ Suspend(r, [r EXCEPT !.pc = "findByIdAndUpdate", !.paid = TRUE])
           ELSE /\ UNCHANGED payments
                /\ Respond(r, 500, NoData, FALSE)
    /\ UNCHANGED <<users, nextId>>

\* await User.findByIdAndUpdate(req.user.id, {...}): no document matches an
\* id that is not stored, and the call resolves to null
VerifyFindByIdAndUpdate(r, keepUndefined) ==
    /\ r.op = "verify" /\ r.pc = "findByIdAndUpdate"
    /\ IF r.uid \in DOMAIN users
       THEN /\ users' = [users EXCEPT ![r.uid] = ApplyMembership(@, r, keepUndefined)]
            /\ Respond(r, 200, NoData, TRUE)
       ELSE /\ UNCHANGED users
            /\ Respond(r, 200, NoData, FALSE)
    /\ UNCHANGED <<payments, nextId>>

\* await User.findByIdAndUpdate(...) rejects (the store fails the write):
\* the catch block answers 500
VerifyFindByIdAndUpdateFails(r) ==
    /\ r.op = "verify" /\ r.pc = "findByIdAndUpdate"
    /\ Respond(r, 500, NoData, FALSE)
    /\ UNCHANGED store

\* a day passes
Tick ==
    /\ ticks < MaxTicks
    /\ ticks' = ticks + 1
    /\ now' = NextDay(now)
    /\ UNCHANGED <<store, inflight, nreq, resp, dashboard>>

\* the bodies tried with credential cred: a request the middleware rejects
\* has its body read by nobody, so one body stands for all
BodiesFor(cred, adminOnly, bodies) ==
    IF Gate(cred, adminOnly) = 0 THEN bodies ELSE {CHOOSE b \in bodies : TRUE}

TargetsFor(cred, adminOnly) ==
    IF Gate(cred, adminOnly) = 0 THEN Ids ELSE {2}

\* the member directory: create, update and delete requests, concurrent
NextDirectory ==
    \/ \E cred \in DirectoryCredentials :
          \E body \in BodiesFor(cred, TRUE, CreateBodies) :
             PostMember(cred, body, MaxInflight)
    \/ \E cred \in DirectoryCredentials :
          \E target \in TargetsFor(cred, TRUE), body \in BodiesFor(cred, TRUE, UpdateBodies) :
             PutMember(cred, target, body, MaxInflight)
    \/ \E cred \in DirectoryCredentials :
          \E target \in TargetsFor(cred, TRUE) : DeleteMember(cred, target, MaxInflight)
    \/ \E r \in inflight : PostMemberFindOne(r)
    \/ \E r \in inflight : PostMemberSave(r)
    \/ \E r \in inflight : PutMemberFindById(r)
    \/ \E r \in inflight : PutMemberFindByIdAndUpdate(r)
    \/ \E r \in inflight : DeleteMemberFindById(r)
    \/ \E r \in inflight : DeleteMemberFindByIdAndDelete(r)

SpecDirectory == Init /\ [][NextDirectory]_vars

\* payments: verify and create-order requests, concurrent with one another
\* and with the admin deleting the member, as the days pass
NextPayments ==
    \/ \E body \in ConcurrentVerifyBodies : Verify(Token(2, "member"), body, MaxInflight)
    \/ \E cred \in {NoToken, Token(MaxId, "member")} :
          Verify(cred, Payable("monthly", 50000, "genuine"), MaxInflight)
    \/ \E body \in OrderBodies : CreateOrder(Token(2, "member"), body, MaxInflight)
    \/ DeleteMember(Token(1, "admin"), 2, MaxInflight)
    \/ \E r \in inflight : DeleteMemberFindById(r)
    \/ \E r \in inflight : DeleteMemberFindByIdAndDelete(r)
    \/ \E r \in inflight, err \in BOOLEAN : CreateOrderCallback(r, err)
    \/ \E r \in inflight : VerifyPaymentSave(r)
    \/ \E r \in inflight, keepUndefined \in BOOLEAN : VerifyFindByIdAndUpdate(r, keepUndefined)
    \/ \E r \in inflight : VerifyFindByIdAndUpdateFails(r)
    \/ Tick

SpecPayments == Init /\ [][NextPayments]_vars

\* reading a member, concurrent with the admin creating and deleting members
NextGet ==
    \/ \E cred \in Credentials, target \in Ids : GetMember(cred, target, MaxInflight)
    \/ PostMember(Token(1, "admin"), NewMember("b@x.com"), MaxInflight)
    \/ \E target \in Ids : DeleteMember(Token(1, "admin"), target, MaxInflight)
    \/ \E r \in inflight : GetMemberFindById(r)
    \/ \E r \in inflight : PostMemberFindOne(r)
    \/ \E r \in inflight : PostMemberSave(r)
    \/ \E r \in inflight : DeleteMemberFindById(r)
    \/ \E r \in inflight : DeleteMemberFindByIdAndDelete(r)

SpecGet == Init /\ [][NextGet]_vars

\* the days the sequential runs start on: the eve of a month's last day,
\* in a leap year and in a common year
StartDates ==
    {Date(2024, 0, 30), Date(2024, 1, 28), Date(2023, 0, 30),
     Date(2023, 11, 30), Date(2024, 7, 30), Date(2024, 2, 14)}

InitSequential ==
    /\ users = (1 :> Admin) @@ (2 :> Asha)
    /\ payments = <<>>
    /\ nextId = 3
    /\ now \in StartDates
    /\ ticks = 0
    /\ inflight = {}
    /\ nreq = 0
    /\ resp = NoResp
    /\ DashboardIdle

\* verify requests handled one at a time: a request is received only when
\* none is in flight
NextSequential ==
    \/ \E body \in VerifyBodies : Verify(Token(2, "member"), body, 1)
    \/ \E cred \in {NoToken, Token(MaxId, "member")} :
          Verify(cred, Payable("monthly", 50000, "genuine"), 1)
    \/ \E body \in UpdateBodies : PutMember(Token(1, "admin"), 2, body, 1)
    \/ \E r \in inflight : PutMemberFindById(r)
    \/ \E r \in inflight : PutMemberFindByIdAndUpdate(r)
    \/ \E r \in inflight : VerifyPaymentSave(r)
    \/ \E r \in inflight, keepUndefined \in BOOLEAN : VerifyFindByIdAndUpdate(r, keepUndefined)
    \/ \E r \in inflight : VerifyFindByIdAndUpdateFails(r)
    \/ Tick

SpecSequential == InitSequential /\ [][NextSequential]_vars

----------------------------------------------------------------------------
(* Claims about payment verification *)

\* a verify request the middleware has let through has been answered
VerifyAnswered == resp.op = "verify" /\ resp.tok = "valid"

\* C1: once a verify request has been answered, with success or with an
\* error, either both its Payment and its Member update are persisted or
\* neither is.
C1_AllOrNothing == VerifyAnswered => (resp.paid <=> resp.applied)

\* C2: a verify request whose requester id is not a stored account is
\* answered NotFound (404) and creates no Payment.
C2_UnknownMemberNotFound ==
    VerifyAnswered /\ resp.uid \notin DOMAIN users =>
        /\ resp.code = 404
        /\ ~resp.paid

\* C3: a verify request whose references and signature the processor does
\* not confirm is answered with an error, persists no Payment and leaves
\* the Member unchanged.
C3_UnconfirmedRejected ==
    VerifyAnswered /\ resp.body.razorpaySignature = "forged" =>
        /\ resp.code = 500
        /\ ~resp.paid
        /\ ~resp.applied

\* the days of the k calendar months that start with month m of year y
RECURSIVE MonthsSpan(_, _, _)
MonthsSpan(y, m, k) ==
    IF k = 0 THEN 0
    ELSE DaysInMonth(y + (m \div 12), m % 12) + MonthsSpan(y, m + 1, k - 1)

\* the days from 1 January 2020 to date
DayNumber(date) == MonthsSpan(2020, 0, (date.y - 2020) * 12 + date.m) + date.d - 1

PlanMonths(plan) ==
    IF plan = "monthly" THEN 1 ELSE IF plan = "quarterly" THEN 3 ELSE 12

\* end is start plus the plan's calendar months, a day past the end of the
\* target month rolling into the month after it
WindowOf(plan, start, end) ==
    /\ DateLess(start, end)
    /\ DayNumber(end) - DayNumber(start) = MonthsSpan(start.y, start.m, PlanMonths(plan))

\* a verify of plan p by a stored member has succeeded, alone
VerifySucceeded ==
    /\ VerifyAnswered
    /\ resp.code = 200
    /\ resp.uid \in DOMAIN users
    /\ resp.body.membership \in Plans

\* C4: after a successful verify by a stored member with plan p, no other
\* request interleaved, the member has membershipType p, status active,
\* startDate the time of the request and endDate the plan's months later,
\* and exactly one Payment was added: the member's, completed, of plan p,
\* with the same dates.
C4_VerifyApplies ==
    VerifySucceeded =>
        LET u == users[resp.uid]
            p == payments[Len(payments)]
        IN  /\ u.membershipType = resp.body.membership
            /\ u.status = "active"
            /\ u.startDate = resp.at
            /\ WindowOf(resp.body.membership, u.startDate, u.endDate)
            /\ Len(payments) = resp.npay + 1
            /\ p.userId = resp.uid
            /\ p.status = "completed"
            /\ p.membership = resp.body.membership
            /\ p.startDate = u.startDate
            /\ p.endDate = u.endDate

\* a monthly verify received on the 31st has succeeded: the end date rolls
\* over the end of the next month
C4_Witness ==
    /\ VerifySucceeded
    /\ resp.body.membership = "monthly"
    /\ resp.at.d = 31
    /\ users[resp.uid].endDate.d < 4

----------------------------------------------------------------------------
(* Claims about the Payment records *)

\* the Payment records a step persists
Added == {i \in 1 .. Len(payments') : i > Len(payments)}

\* no step removes a stored Payment or changes any of its fields
PaymentsKept ==
    /\ Len(payments') >= Len(payments)
    /\ \A i \in 1 .. Len(payments) : payments'[i] = payments[i]

\* a verify request's payment.save() completes in this step
SavesPayment ==
    \E r \in inflight :
        /\ r.op = "verify" /\ r.pc = "save"
        /\ [r EXCEPT !.pc = "findByIdAndUpdate", !.paid = TRUE] \in inflight'

\* a create-order request is received in this step
OrderRequested == \E r \in inflight' \ inflight : r.op = "order"

\* C5 as stated: a Payment is first persisted with status pending, when a
\* payment intent is requested; it becomes completed or failed only from
\* pending; a completed or failed Payment never changes.
C5_PendingFirst ==
    [][/\ \A i \in Added : payments'[i].status = "pending"
       /\ Added # {} => OrderRequested
       /\ Len(payments') >= Len(payments)
       /\ \A i \in 1 .. Len(payments) :
             /\ payments'[i].status # payments[i].status => payments[i].status = "pending"
             /\ payments[i].status \in {"completed", "failed"} => payments'[i] = payments[i]
      ]_vars

\* C5 as amended: a Payment is first persisted by a verify request's save,
\* already completed; no Payment is persisted when a payment intent is
\* requested; a stored Payment never changes or disappears.
C5_CompletedOnceSaved ==
    [][/\ \A i \in Added : payments'[i].status = "completed"
       /\ Added # {} <=> SavesPayment
       /\ OrderRequested => Added = {}
       /\ PaymentsKept
      ]_vars

\* a create-order request has been answered and the member deleted while a
\* completed Payment of that member is stored
C5_Witness ==
    /\ Len(payments) >= 1
    /\ payments[1].status = "completed"
    /\ payments[1].userId \notin DOMAIN users
    /\ resp.op = "order" /\ resp.code = 200

----------------------------------------------------------------------------
(* Claims about the member directory *)

EmailStored(email) == \E i \in DOMAIN users : users[i].email = email

\* C6: no two stored accounts have the same email, whatever create, update
\* and delete requests have run and however they interleaved.
C6_EmailUnique ==
    \A i \in DOMAIN users : \A j \in DOMAIN users :
        i # j => users[i].email # users[j].email

\* the later of two concurrent creates with the same email, both past the
\* lookup, has been refused by the store
C6_Witness ==
    /\ resp.op = "create" /\ resp.code = 500
    /\ resp.body \in {NewMember(e) : e \in Emails}
    /\ \E i \in DOMAIN users : i > 2 /\ users[i].email = resp.body.email

\* the body of a create request carries every field the schema requires
Complete(body) ==
    /\ body.name \notin {Undefined, ""}
    /\ body.email \notin {Undefined, ""}
    /\ body.phone \notin {Undefined, ""}
    /\ body.membershipType \in Plans
    /\ body.startDate # NoDate
    /\ body.endDate # NoDate

Mutating == {"create", "update", "delete"}

\* C8: a create, update or delete request without a valid token is
\* answered 401, one with a valid token whose role is not admin 403; the
\* handler of neither runs and the stored accounts are unchanged; only the
\* handler of an admin's request ever changes the stored accounts.
C8_AdminOnly ==
    [][/\ resp'.rid # resp.rid /\ resp'.op \in Mutating /\ resp'.tok # "valid" =>
             /\ resp'.code = 401
             /\ users' = users
             /\ inflight' = inflight
       /\ resp'.rid # resp.rid /\ resp'.op \in Mutating
             /\ resp'.tok = "valid" /\ resp'.role # "admin" =>
             /\ resp'.code = 403
             /\ users' = users
             /\ inflight' = inflight
       /\ \A r \in inflight' :
             r.op \in Mutating => r.tok = "valid" /\ r.role = "admin"
       /\ users' # users =>
             \E r \in inflight \ inflight' :
                r.op \in Mutating /\ r.tok = "valid" /\ r.role = "admin"
      ]_vars

\* a member's delete request has been answered 403 and the member it names
\* is still stored
C8_Witness ==
    /\ resp.op = "delete" /\ resp.code = 403
    /\ resp.tok = "valid" /\ resp.role = "member"
    /\ resp.target \in DOMAIN users

\* C9: a get by a requester of role member for another id is answered 403
\* with no member data, whether or not the id is stored; a get of a stored
\* id by that account itself (whatever its role) or by an admin is answered
\* 200 with the member.
C9_GetAccess ==
    [][resp'.rid # resp.rid /\ resp'.op = "get" /\ resp'.tok = "valid" =>
          /\ resp'.role = "member" /\ resp'.uid # resp'.target =>
                /\ resp'.code = 403
                /\ resp'.data = NoData
          /\ (resp'.role = "admin" \/ resp'.uid = resp'.target)
                /\ resp'.target \in DOMAIN users =>
                /\ resp'.code = 200
                /\ resp'.data = [f \in DOMAIN users[resp'.target] \ {"password"} |->
                                    users[resp'.target][f]]
      ]_vars

\* a member has read their own record
C9_Witness ==
    /\ resp.op = "get" /\ resp.code = 200
    /\ resp.role = "member" /\ resp.uid = resp.target
    /\ resp.data.email = users[resp.target].email


\* the body keys of an update request that are supplied at all
Supplied(body) ==
    {f \in StringFields : body[f] # Undefined} \cup {f \in DateFields : body[f] # NoDate}

\* the body keys of an update request supplied with a non-empty value
SuppliedNonEmpty(body) ==
    {f \in StringFields : body[f] \notin {Undefined, ""}}
    \cup {f \in DateFields : body[f] # NoDate}

\* the step gives account id the values of body at the keys in fields and
\* changes nothing else of the User collection
ChangesExactly(id, fields, body) ==
    /\ DOMAIN users' = DOMAIN users
    /\ \A i \in DOMAIN users \ {id} : users'[i] = users[i]
    /\ \A f \in DOMAIN users[id] :
          users'[id][f] = IF f \in fields THEN body[f] ELSE users[id][f]

\* C10 as stated: an admin update answered 200 for a stored member changes
\* exactly the supplied fields, each to the supplied value, and nothing
\* else; an update of an unknown id is answered 404 and changes nothing.
C10_ExactlySupplied ==
    [][\A r \in inflight :
          r.op = "update" /\ r \notin inflight' =>
             /\ payments' = payments
             /\ r.pc = "findById" /\ r.target \notin DOMAIN users =>
                   /\ resp'.rid = r.rid
                   /\ resp'.code = 404
                   /\ users' = users
             /\ r.pc = "findByIdAndUpdate" /\ r.target \in DOMAIN users
                   /\ users[r.target].role = "member" /\ resp'.code = 200 =>
                   ChangesExactly(r.target, Supplied(r.body), r.body)
      ]_vars

\* C10 as amended: an admin update answered 200 for a member stored when
\* the write is applied changes exactly the fields supplied with a
\* non-empty value, each to that value, and nothing else; an update that
\* is answered otherwise, or whose member is gone by then, changes
\* nothing; an update of an unknown id is answered 404.
C10_ExactlyNonEmpty ==
    [][\A r \in inflight :
          r.op = "update" /\ r \notin inflight' =>
             /\ payments' = payments
             /\ r.pc = "findById" /\ r.target \notin DOMAIN users =>
                   /\ resp'.rid = r.rid
                   /\ resp'.code = 404
                   /\ users' = users
             /\ r.pc = "findByIdAndUpdate" =>
                   IF r.target \in DOMAIN users /\ resp'.code = 200
                   THEN ChangesExactly(r.target, SuppliedNonEmpty(r.body), r.body)
                   ELSE users' = users
      ]_vars

\* the admin has changed the member's plan alone to yearly: the dates and
\* the name are as they were
C10_Witness ==
    /\ resp.op = "update" /\ resp.code = 200 /\ resp.applied
    /\ resp.body = [NoBody EXCEPT !.membershipType = "yearly"]
    /\ users[resp.target].membershipType = "yearly"
    /\ users[resp.target].startDate = D1
    /\ users[resp.target].endDate = D2
    /\ users[resp.target].name = "Asha"

----------------------------------------------------------------------------
(* Claims about deleting a member *)

\* C11: at most one delete request for an id is ever answered 200: a
\* delete answered 200 has removed the account, and a delete of an id that
\* is no longer stored when the request's database call runs (deleted
\* before, or by a concurrent request) is answered 404; a delete leaves
\* every Payment record unchanged.
C11_DeleteOnce ==
    [][\A r \in inflight :
          r.op = "delete" /\ r \notin inflight' =>
             /\ payments' = payments
             /\ r.target \notin DOMAIN users =>
                   /\ resp'.rid = r.rid
                   /\ resp'.code = 404
                   /\ users' = users
             /\ resp'.rid = r.rid /\ resp'.code = 200 =>
                   /\ r.target \in DOMAIN users
                   /\ r.target \notin DOMAIN users'
      ]_vars

----------------------------------------------------------------------------
(* Claims about the membership window of a stored member *)

\* C12: every stored account with role member has membershipType,
\* startDate and endDate all present, and startDate <= endDate.
C12_MemberWindow ==
    \A i \in DOMAIN users :
        users[i].role = "member" =>
            /\ users[i].membershipType \notin {Undefined, Null, ""}
            /\ users[i].startDate # NoDate
            /\ users[i].endDate # NoDate
            /\ ~DateLess(users[i].endDate, users[i].startDate)

----------------------------------------------------------------------------
(* Claims about concurrent renewals *)

\* renewals of member 2 alone: verify requests of the three plans with a
\* confirmed signature, handled concurrently, every store call succeeding;
\* no admin request touches the member
NextRenewals ==
    \/ \E p \in Plans :
          Verify(Token(2, "member"), Payable(p, 50000, "genuine"), MaxInflight)
    \/ \E r \in inflight : VerifyPaymentSave(r)
    \/ \E r \in inflight : VerifyFindByIdAndUpdate(r, TRUE)
    \/ Tick

SpecRenewals == Init /\ [][NextRenewals]_vars

\* the Payment records of account id, by position in the collection
PaymentsOf(id) == {i \in 1 .. Len(payments) : payments[i].userId = id}

\* the most recently persisted Payment of account id
LatestOf(id) == payments[CHOOSE i \in PaymentsOf(id) : \A j \in PaymentsOf(id) : j <= i]

\* C14: once concurrent verify requests of one member have all finished,
\* every request has produced its own completed Payment and the member's
\* membershipType, startDate and endDate are those of the member's most
\* recently persisted Payment.
C14_NoLostRenewal ==
    inflight = {} /\ nreq > 0 =>
        /\ Len(payments) = nreq
        /\ \A i \in 1 .. Len(payments) :
              payments[i].userId = 2 /\ payments[i].status = "completed"
        /\ users[2].membershipType = LatestOf(2).membership
        /\ users[2].startDate = LatestOf(2).startDate
        /\ users[2].endDate = LatestOf(2).endDate

----------------------------------------------------------------------------
(* The member dashboard and the claim about the days remaining *)

\* the clock reading the dashboard sessions start at: two days after the
\* epoch, so that every reading and end date stays within 31 bits
SessionStart == 2 * MsPerDay

\* end dates around the start: a day before, the same instant, a
\* millisecond, a day, a day and a millisecond, two and a half days later
EndTimes ==
    {SessionStart - MsPerDay, SessionStart, SessionStart + 1,
     SessionStart + MsPerDay, SessionStart + MsPerDay + 1,
     SessionStart + 2 * MsPerDay + (MsPerDay \div 2)}

\* the time that passes between two readings: a millisecond, half a day, a day
Elapses == {1, MsPerDay \div 2, MsPerDay}

InitDashboard ==
    /\ users = (1 :> Admin) @@ (2 :> Asha)
    /\ payments = <<>>
    /\ nextId = 3
    /\ now = Date(2024, 0, 30)
    /\ ticks = 0
    /\ inflight = {}
    /\ nreq = 0
    /\ resp = NoResp
    /\ membershipData \in {NoMembership} \cup {[endDate |-> e] : e \in EndTimes}
    /\ today = SessionStart
    /\ advances = 0
    /\ rendered = Shown(membershipData, today)

\* time passes on the browser's clock
Advance(ms) ==
    /\ advances < MaxAdvances
    /\ advances' = advances + 1
    /\ today' = today + ms
    /\ UNCHANGED <<store, clock, inflight, nreq, resp, membershipData, rendered>>

\* the dashboard renders: getDaysRemaining() reads the clock
Render ==
    /\ rendered' = Shown(membershipData, today)
    /\ UNCHANGED <<store, clock, inflight, nreq, resp, membershipData, today, advances>>

NextDashboard ==
    \/ \E ms \in Elapses : Advance(ms)
    \/ Render

SpecDashboard == InitDashboard /\ [][NextDashboard]_vars

\* what was rendered is a whole number of days, 0 without an end date and
\* from the end date on, else the least number of days that covers the
\* time left
DaysAreCeiling ==
    LET d == rendered.days
    IN  /\ d \in Nat
        /\ "endDate" \notin DOMAIN rendered.data => d = 0
        /\ "endDate" \in DOMAIN rendered.data =>
              LET left == rendered.data.endDate - rendered.at
              IN  /\ left <= 0 => d = 0
                  /\ left > 0 => (d - 1) * MsPerDay < left /\ left <= d * MsPerDay

\* a later rendering of the same end date never shows more days
DaysNeverIncrease ==
    rendered'.data = rendered.data /\ rendered'.at >= rendered.at =>
        rendered'.days <= rendered.days

\* C13: daysRemaining(endDate, now) is an integer >= 0, the ceiling of
\* (endDate - now) in whole days, 0 for every now >= endDate and when
\* endDate is absent, and never increases as now advances.
C13_DaysRemaining == []DaysAreCeiling /\ [][DaysNeverIncrease]_vars

\* a millisecond before the end date, after the clock has advanced, the
\* dashboard shows one day where it showed two
C13_Witness ==
    /\ advances > 0
    /\ "endDate" \in DOMAIN rendered.data
    /\ rendered.data.endDate - rendered.at = 1
    /\ rendered.at > SessionStart
    /\ rendered.days = 1

====
